---- MODULE Spec2Model ----
(***************************************************************************)
(* ssim-grey: mean SSIM of two greyscale images (src/src/index.ts).        *)
(*                                                                         *)
(* One call of ssimGrey is modelled as a state machine: the prelude        *)
(* (options, L, c1, c2, window extents, early return), the summed-area     *)
(* table build (one step per pixel), the window loop (one step per         *)
(* window) and the return.                                                 *)
(*                                                                         *)
(* Numbers.  The code computes in IEEE doubles.  The SAT cells hold sums   *)
(* of integers and are exact; every other quantity is modelled as an exact *)
(* rational <<n, d>> (d > 0, lowest terms), extended with the IEEE         *)
(* specials the code can produce by dividing by zero: NaN = <<0, 0>>,      *)
(* +Infinity = <<1, 0>>, -Infinity = <<-1, 0>>.  Rounding of finite        *)
(* results is not modelled.                                                *)
(***************************************************************************)
EXTENDS Integers, Sequences, FiniteSets, TLC

(* ------------------------------ bounds -------------------------------- *)

\* Largest number of pixels (width * height) of an input image.
MaxPixels == 6
\* Largest width and largest height of an input image.
MaxSide == 3
\* Largest window size passed as options.windowSize.
MaxWs == 3

(* ------------------------ extended rationals --------------------------- *)

RECURSIVE GCD(_, _)
GCD(a, b) == IF b = 0 THEN a ELSE GCD(b, a % b)

Abs(a) == IF a < 0 THEN -a ELSE a

Sgn(a) == IF a < 0 THEN -1 ELSE IF a > 0 THEN 1 ELSE 0

NaN == <<0, 0>>

IsNaN(r) == r[2] = 0 /\ r[1] = 0

IsFinite(r) == r[2] # 0

\* n / d as a value: lowest terms, positive denominator; d = 0 gives the specials.
Norm(n, d) ==
    IF d = 0 THEN <<Sgn(n), 0>>
    ELSE LET g == GCD(Abs(n), Abs(d))
         IN  IF d < 0 THEN <<(-n) \div g, (-d) \div g>> ELSE <<n \div g, d \div g>>

R(i) == <<i, 1>>

RNeg(a) == <<-a[1], a[2]>>

RAdd(a, b) ==
    IF IsNaN(a) \/ IsNaN(b) THEN NaN
    ELSE IF a[2] = 0 /\ b[2] = 0 THEN (IF a[1] = b[1] THEN a ELSE NaN)
    ELSE IF a[2] = 0 THEN a
    ELSE IF b[2] = 0 THEN b
    ELSE LET g == GCD(a[2], b[2])
         IN  Norm(a[1] * (b[2] \div g) + b[1] * (a[2] \div g), (a[2] \div g) * b[2])

RSub(a, b) == RAdd(a, RNeg(b))

RMul(a, b) ==
    IF IsNaN(a) \/ IsNaN(b) THEN NaN
    ELSE IF a[2] = 0 \/ b[2] = 0
         THEN <<Sgn(a[1]) * Sgn(b[1]), 0>>
    ELSE Norm(a[1] * b[1], a[2] * b[2])

RDiv(a, b) ==
    IF IsNaN(a) \/ IsNaN(b) THEN NaN
    ELSE IF a[2] = 0 /\ b[2] = 0 THEN NaN
    ELSE IF a[2] = 0 THEN <<a[1] * (IF b[1] < 0 THEN -1 ELSE 1), 0>>
    ELSE IF b[2] = 0 THEN R(0)
    ELSE Norm(a[1] * b[2], a[2] * b[1])

\* a <= b; false when either side is NaN, as every IEEE comparison with NaN is.
RLeq(a, b) ==
    /\ ~IsNaN(a)
    /\ ~IsNaN(b)
    /\ IF a[2] = 0 /\ b[2] = 0 THEN a[1] <= b[1]
       ELSE IF a[2] = 0 THEN a[1] < 0
       ELSE IF b[2] = 0 THEN b[1] > 0
       ELSE a[1] * b[2] <= b[1] * a[2]

RLt(a, b) == RLeq(a, b) /\ a # b

(* ------------------------------ inputs -------------------------------- *)

\* options.windowSize values tried.
WindowSizes == 1 .. MaxWs

\* options.bitDepth values tried: a small depth and one past the width of <<.
BitDepths == {1, 32}

\* (k1, k2) pairs tried, each a positive rational <<n, d>>.  The defaults 0.01
\* and 0.03 need products beyond the range of the model checker's 32-bit integers.
KPairs == {<< <<1, 1>>, <<1, 2>> >>}

\* Sample values tried: the whole range of a 1-bit image.
SampleValues == {0, 1}

\* Uint8Array | Buffer elements are 0..255; a valid sample is also <= 2^bitDepth - 1.
SampleLimit(bitDepth) == IF bitDepth >= 8 THEN 255 ELSE 2 ^ bitDepth - 1

Samples(bitDepth) == {v \in SampleValues : v <= SampleLimit(bitDepth)}

Shapes == {s \in (1 .. MaxSide) \X (1 .. MaxSide) : s[1] * s[2] <= MaxPixels}

(* ------------------------------ state --------------------------------- *)

VARIABLES
    img1, img2, width, height,        \* the arguments
    ws, k1, k2, bitDepth,             \* the resolved options
    pc,                               \* "start", "build", "windows", "done"
    L, c1, c2, wsSq, winW, winH,      \* the prelude's constants
    sw, satSize,
    satX, satY, satX2, satY2, satXY,  \* the five tables, cell i at position i + 1
    y, x,                             \* the build loop's counters
    mssim, count, wy, wx,             \* the window loop's state
    result,                           \* the returned value, once pc = "done"
    wins, order,                      \* history: each window's quantities and corner
    writes,                           \* history: SAT indices written, in order
    idxOk                             \* history: every index used so far was in range

vars == <<img1, img2, width, height, ws, k1, k2, bitDepth, pc, L, c1, c2, wsSq,
          winW, winH, sw, satSize, satX, satY, satX2, satY2, satXY, y, x, mssim,
          count, wy, wx, result, wins, order, writes, idxOk>>

(* ----------------------------- prelude -------------------------------- *)

\* 1 << b on int32 operands: the shift count is taken modulo 32.
Shl1(b) == IF b % 32 = 31 THEN -2147483647 - 1 ELSE 2 ^ (b % 32)

\* const L = (1 << bitDepth) - 1
DynamicRange(b) == Shl1(b) - 1

\* const c = k * L * (k * L)
Stability(k, l) == RMul(RMul(k, R(l)), RMul(k, R(l)))

\* const winW = width - ws + 1 (and winH likewise)
WinExtent(size, w) == size - w + 1

\* Mutant of TooSmall: && in place of ||.
TooSmallBoth(ww, wh) == ww <= 0 /\ wh <= 0

\* if (winW <= 0 || winH <= 0) return 1
TooSmall(ww, wh) == ww <= 0 \/ wh <= 0

\* new Float64Array(n): n cells, all 0
Zeros(n) == [i \in 1 .. n |-> 0]

\* Mutant of SatStride: the zero border column is forgotten.
SatStrideNoBorder(w) == w

\* const sw = width + 1
SatStride(w) == w + 1

\* const satSize = sw * (height + 1)
SatCells(stride, h) == stride * (h + 1)

Init ==
    /\ \E s \in Shapes : width = s[1] /\ height = s[2]
    /\ ws \in WindowSizes
    /\ \E k \in KPairs : k1 = k[1] /\ k2 = k[2]
    /\ bitDepth \in BitDepths
    /\ img1 \in [1 .. width * height -> Samples(bitDepth)]
    /\ img2 \in [1 .. width * height -> Samples(bitDepth)]
    /\ pc = "start"
    /\ L = 0 /\ c1 = R(0) /\ c2 = R(0) /\ wsSq = 0 /\ winW = 0 /\ winH = 0
    /\ sw = 0 /\ satSize = 0
    /\ satX = <<>> /\ satY = <<>> /\ satX2 = <<>> /\ satY2 = <<>> /\ satXY = <<>>
    /\ y = 0 /\ x = 0
    /\ mssim = R(0) /\ count = 0 /\ wy = 0 /\ wx = 0
    /\ result = R(0)
    /\ wins = <<>> /\ order = <<>> /\ writes = <<>>
    /\ idxOk = TRUE

\* Lines 46-60 with a window that does not fit: return 1 at once.
ReturnEarly ==
    /\ pc = "start"
    /\ TooSmall(WinExtent(width, ws), WinExtent(height, ws))
    /\ L' = DynamicRange(bitDepth)
    /\ c1' = Stability(k1, L')
    /\ c2' = Stability(k2, L')
    /\ wsSq' = ws * ws
    /\ winW' = WinExtent(width, ws)
    /\ winH' = WinExtent(height, ws)
    /\ result' = R(1)
    /\ pc' = "done"
    /\ UNCHANGED <<img1, img2, width, height, ws, k1, k2, bitDepth, sw, satSize,
                   satX, satY, satX2, satY2, satXY, y, x, mssim, count, wy, wx,
                   wins, order, writes, idxOk>>

\* Lines 46-72 otherwise: the constants, then the five zero-filled tables.
Allocate ==
    /\ pc = "start"
    /\ ~TooSmall(WinExtent(width, ws), WinExtent(height, ws))
    /\ L' = DynamicRange(bitDepth)
    /\ c1' = Stability(k1, L')
    /\ c2' = Stability(k2, L')
    /\ wsSq' = ws * ws
    /\ winW' = WinExtent(width, ws)
    /\ winH' = WinExtent(height, ws)
    /\ sw' = SatStride(width)
    /\ satSize' = SatCells(sw', height)
    /\ satX' = Zeros(satSize')
    /\ satY' = Zeros(satSize')
    /\ satX2' = Zeros(satSize')
    /\ satY2' = Zeros(satSize')
    /\ satXY' = Zeros(satSize')
    /\ y' = 0 /\ x' = 0
    /\ pc' = "build"
    /\ UNCHANGED <<img1, img2, width, height, ws, k1, k2, bitDepth, mssim, count,
                   wy, wx, result, wins, order, writes, idxOk>>

(* --------------------------- the SAT build ---------------------------- *)

\* Whether i is an index of an array of n cells.
InRange(i, n) == 0 <= i /\ i < n

\* a[i], cell i being position i + 1 of the sequence: a read outside a typed array
\* yields undefined; idxOk records that it happened, and the value is then taken as 0.
Rd(a, i) == IF i + 1 \in DOMAIN a THEN a[i + 1] ELSE 0

\* a[i] = v: a write outside a typed array is dropped.
Wr(a, i, v) == IF i + 1 \in DOMAIN a THEN [a EXCEPT ![i + 1] = v] ELSE a

\* y * width + x, the flat offset of pixel (x, y)
Offset(px, py, w) == py * w + px

\* const i = (y + 1) * sw + (x + 1)
CellIndex(px, py, stride) == (py + 1) * stride + (px + 1)

\* const above = i - sw
AboveOf(i, stride) == i - stride

\* const left = i - 1
LeftOf(i) == i - 1

\* const aboveLeft = above - 1
AboveLeftOf(i, stride) == AboveOf(i, stride) - 1

\* Mutant of Recurrence: the doubly counted rectangle is not subtracted.
RecurrenceNoCorner(sat, v, i, stride) ==
    v + Rd(sat, AboveOf(i, stride)) + Rd(sat, LeftOf(i))

\* sat[i] = v + sat[above] + sat[left] - sat[aboveLeft]
Recurrence(sat, v, i, stride) ==
    v + Rd(sat, AboveOf(i, stride)) + Rd(sat, LeftOf(i)) - Rd(sat, AboveLeftOf(i, stride))

\* The five tables as one value.
Tables(tX, tY, tX2, tY2, tXY) == [X |-> tX, Y |-> tY, X2 |-> tX2, Y2 |-> tY2, XY |-> tXY]

\* Lines 76-88: the body of the build loop at pixel (px, py) of images a and b.
BuildBody(T, a, b, cx, cy, w, stride) ==
    LET px == Rd(a, Offset(cx, cy, w))
        py == Rd(b, Offset(cx, cy, w))
        i  == CellIndex(cx, cy, stride)
    IN  Tables(Wr(T.X,  i, Recurrence(T.X,  px,      i, stride)),
               Wr(T.Y,  i, Recurrence(T.Y,  py,      i, stride)),
               Wr(T.X2, i, Recurrence(T.X2, px * px, i, stride)),
               Wr(T.Y2, i, Recurrence(T.Y2, py * py, i, stride)),
               Wr(T.XY, i, Recurrence(T.XY, px * py, i, stride)))

\* The indices the body of the build loop uses at pixel (cx, cy) are all in range.
BuildIndicesOk(cx, cy, w, stride, nPix, nCells) ==
    /\ InRange(Offset(cx, cy, w), nPix)
    /\ InRange(CellIndex(cx, cy, stride), nCells)
    /\ InRange(AboveOf(CellIndex(cx, cy, stride), stride), nCells)
    /\ InRange(LeftOf(CellIndex(cx, cy, stride)), nCells)
    /\ InRange(AboveLeftOf(CellIndex(cx, cy, stride), stride), nCells)

\* The next (y, x) of two nested for loops, the inner one over 0 <= x < w.
NextCol(cx, w) == IF cx + 1 < w THEN cx + 1 ELSE 0

NextRow(cy, cx, w) == IF cx + 1 < w THEN cy ELSE cy + 1

\* Lines 74-90, one iteration of the inner loop; after the last one, lines 94-95.
BuildStep ==
    /\ pc = "build"
    /\ y < height /\ x < width
    /\ \E T \in {BuildBody(Tables(satX, satY, satX2, satY2, satXY),
                            img1, img2, x, y, width, sw)} :
           /\ satX' = T.X /\ satY' = T.Y /\ satX2' = T.X2 /\ satY2' = T.Y2
           /\ satXY' = T.XY
    /\ writes' = Append(writes, CellIndex(x, y, sw))
    /\ idxOk' = (/\ idxOk
                 /\ BuildIndicesOk(x, y, width, sw, Len(img1), satSize)
                 /\ BuildIndicesOk(x, y, width, sw, Len(img2), satSize))
    /\ x' = NextCol(x, width)
    /\ y' = NextRow(y, x, width)
    /\ IF y' < height
       THEN /\ pc' = "build"
            /\ UNCHANGED <<mssim, count, wy, wx>>
       ELSE /\ pc' = "windows"
            /\ mssim' = R(0) /\ count' = 0 /\ wy' = 0 /\ wx' = 0
    /\ UNCHANGED <<img1, img2, width, height, ws, k1, k2, bitDepth, L, c1, c2,
                   wsSq, winW, winH, sw, satSize, result, wins, order>>

(* --------------------------- the window loop -------------------------- *)

\* const tl = wy * sw + wx
TopLeft(cx, cy, stride) == cy * stride + cx

\* Mutant of TopRight: the right edge taken one column short.
TopRightShort(cx, cy, w, stride) == cy * stride + (cx + w - 1)

\* const tr = wy * sw + (wx + ws)
TopRight(cx, cy, w, stride) == cy * stride + (cx + w)

\* const bl = (wy + ws) * sw + wx
BottomLeft(cx, cy, w, stride) == (cy + w) * stride + cx

\* const br = (wy + ws) * sw + (wx + ws)
BottomRight(cx, cy, w, stride) == (cy + w) * stride + (cx + w)

\* sat[br] - sat[bl] - sat[tr] + sat[tl]
RectSum(sat, cx, cy, w, stride) ==
    Rd(sat, BottomRight(cx, cy, w, stride)) - Rd(sat, BottomLeft(cx, cy, w, stride))
        - Rd(sat, TopRight(cx, cy, w, stride)) + Rd(sat, TopLeft(cx, cy, stride))

\* The four corner indices of the window at (cx, cy) are all in range.
CornersOk(cx, cy, w, stride, nCells) ==
    /\ InRange(TopLeft(cx, cy, stride), nCells)
    /\ InRange(TopRight(cx, cy, w, stride), nCells)
    /\ InRange(BottomLeft(cx, cy, w, stride), nCells)
    /\ InRange(BottomRight(cx, cy, w, stride), nCells)

\* const meanX = sX / wsSq
Mean(s, n) == RDiv(R(s), R(n))

\* Mutant of Moment: the second mean is replaced by the first.
MomentSameMean(s, n, ma, mb) == RSub(RDiv(R(s), R(n)), RMul(ma, ma))

\* const varX = (rectangle sum of squares) / wsSq - meanX * meanX, and covXY likewise
Moment(s, n, ma, mb) == RSub(RDiv(R(s), R(n)), RMul(ma, mb))

\* Mutant of Num: the factor 2 of the covariance term is lost.
NumNoTwo(mx, my, cov, a1, a2) ==
    RMul(RAdd(RMul(RMul(R(2), mx), my), a1), RAdd(cov, a2))

\* const num = (2 * meanX * meanY + c1) * (2 * covXY + c2)
Num(mx, my, cov, a1, a2) ==
    RMul(RAdd(RMul(RMul(R(2), mx), my), a1), RAdd(RMul(R(2), cov), a2))

\* Mutant of Den: the variance of the second image is subtracted.
DenMinus(mx, my, vx, vy, a1, a2) ==
    RMul(RAdd(RAdd(RMul(mx, mx), RMul(my, my)), a1), RAdd(RSub(vx, vy), a2))

\* const den = (meanX * meanX + meanY * meanY + c1) * (varX + varY + c2)
Den(mx, my, vx, vy, a1, a2) ==
    RMul(RAdd(RAdd(RMul(mx, mx), RMul(my, my)), a1), RAdd(RAdd(vx, vy), a2))

\* Lines 100-117: everything computed for the window with top-left corner (cx, cy).
EvalWindow(T, cx, cy, w, stride, n, a1, a2) ==
    LET sX    == RectSum(T.X,  cx, cy, w, stride)
        sY    == RectSum(T.Y,  cx, cy, w, stride)
        sX2   == RectSum(T.X2, cx, cy, w, stride)
        sY2   == RectSum(T.Y2, cx, cy, w, stride)
        sXY   == RectSum(T.XY, cx, cy, w, stride)
        meanX == Mean(sX, n)
        meanY == Mean(sY, n)
        varX  == Moment(sX2, n, meanX, meanX)
        varY  == Moment(sY2, n, meanY, meanY)
        covXY == Moment(sXY, n, meanX, meanY)
        num   == Num(meanX, meanY, covXY, a1, a2)
        den   == Den(meanX, meanY, varX, varY, a1, a2)
    IN  [sX |-> sX, sY |-> sY, sX2 |-> sX2, sY2 |-> sY2, sXY |-> sXY,
         varX |-> varX, varY |-> varY, covXY |-> covXY,
         num |-> num, den |-> den, val |-> RDiv(num, den)]

\* Mutant of Fold: the difference is divided by the count before the increment.
FoldLate(m, v, n) == RAdd(m, RDiv(RSub(v, m), R(n - 1)))

\* mssim = mssim + (val - mssim) / count, with count already incremented
Fold(m, v, n) == RAdd(m, RDiv(RSub(v, m), R(n)))

\* Lines 97-123, one iteration of the inner loop.
WindowStep ==
    /\ pc = "windows"
    /\ wy < winH /\ wx < winW
    /\ \E W \in {EvalWindow(Tables(satX, satY, satX2, satY2, satXY),
                            wx, wy, ws, sw, wsSq, c1, c2)} :
           /\ wins' = Append(wins, W)
           /\ mssim' = Fold(mssim, W.val, count + 1)
    /\ count' = count + 1
    /\ order' = Append(order, <<wx, wy>>)
    /\ idxOk' = (idxOk /\ CornersOk(wx, wy, ws, sw, satSize))
    /\ wx' = NextCol(wx, winW)
    /\ wy' = NextRow(wy, wx, winW)
    /\ UNCHANGED <<img1, img2, width, height, ws, k1, k2, bitDepth, pc, L, c1, c2,
                   wsSq, winW, winH, sw, satSize, satX, satY, satX2, satY2, satXY,
                   y, x, result, writes>>

\* Line 125, once the window loops have run out: return mssim.
Return ==
    /\ pc = "windows"
    /\ ~(wy < winH /\ wx < winW)
    /\ result' = mssim
    /\ pc' = "done"
    /\ UNCHANGED <<img1, img2, width, height, ws, k1, k2, bitDepth, L, c1, c2,
                   wsSq, winW, winH, sw, satSize, satX, satY, satX2, satY2, satXY,
                   y, x, mssim, count, wy, wx, wins, order, writes, idxOk>>

Next == ReturnEarly \/ Allocate \/ BuildStep \/ WindowStep \/ Return

Spec == Init /\ [][Next]_vars

(* ------------------- the call as one pure function --------------------- *)

\* The build loops from pixel (cx, cy) on, over images a and b of w by h pixels.
RECURSIVE BuildLoop(_, _, _, _, _, _, _, _)
BuildLoop(T, a, b, cx, cy, w, h, stride) ==
    IF cy < h /\ cx < w
    THEN BuildLoop(BuildBody(T, a, b, cx, cy, w, stride), a, b,
                   NextCol(cx, w), NextRow(cy, cx, w), w, h, stride)
    ELSE T

\* The window loops from corner (cx, cy) on, with running mean m after n windows.
RECURSIVE WindowLoop(_, _, _, _, _, _, _, _, _, _, _, _)
WindowLoop(T, cx, cy, m, n, ww, wh, w, stride, nn, a1, a2) ==
    IF cy < wh /\ cx < ww
    THEN WindowLoop(T, NextCol(cx, ww), NextRow(cy, cx, ww),
                    Fold(m, EvalWindow(T, cx, cy, w, stride, nn, a1, a2).val, n + 1),
                    n + 1, ww, wh, w, stride, nn, a1, a2)
    ELSE m

\* ssimGrey(a, b, w, h, {windowSize: wz, k1: kk1, k2: kk2, bitDepth: bd})
ssimGrey(a, b, w, h, wz, kk1, kk2, bd) ==
    IF TooSmall(WinExtent(w, wz), WinExtent(h, wz))
    THEN R(1)
    ELSE LET Z == Zeros(SatCells(SatStride(w), h))
         IN  WindowLoop(BuildLoop(Tables(Z, Z, Z, Z, Z), a, b, 0, 0, w, h, SatStride(w)),
                        0, 0, R(0), 0, WinExtent(w, wz), WinExtent(h, wz), wz,
                        SatStride(w), wz * wz,
                        Stability(kk1, DynamicRange(bd)), Stability(kk2, DynamicRange(bd)))

(* ------------------------------ claims -------------------------------- *)

\* const bitDepth = options?.bitDepth ?? 8
DefaultBitDepth == 8

\* Whether this call has a window that fits, stated from the arguments alone.
Fits == width - ws + 1 > 0 /\ height - ws + 1 > 0

\* The per-pixel quantity q at pixel (px, py), read from the images themselves.
Quantity(q, px, py) ==
    LET a == img1[py * width + px + 1]
        b == img2[py * width + px + 1]
    IN  CASE q = "X" -> a
          [] q = "Y" -> b
          [] q = "X2" -> a * a
          [] q = "Y2" -> b * b
          [] q = "XY" -> a * b

\* The sum of quantity q over the rw by rh pixels whose top-left pixel is (x0, y0),
\* added up pixel by pixel from the k-th on.
RECURSIVE DirectFrom(_, _, _, _, _, _)
DirectFrom(q, x0, y0, rw, rh, k) ==
    IF k >= rw * rh THEN 0
    ELSE Quantity(q, x0 + (k % rw), y0 + (k \div rw))
             + DirectFrom(q, x0, y0, rw, rh, k + 1)

Direct(q, x0, y0, rw, rh) == IF rw <= 0 \/ rh <= 0 THEN 0 ELSE DirectFrom(q, x0, y0, rw, rh, 0)

TableOf(q) ==
    CASE q = "X" -> satX
      [] q = "Y" -> satY
      [] q = "X2" -> satX2
      [] q = "Y2" -> satY2
      [] q = "XY" -> satXY

Quantities == {"X", "Y", "X2", "Y2", "XY"}

\* C1: when the window does not fit in the image (width - ws + 1 <= 0 or
\* height - ws + 1 <= 0) the call returns exactly 1, whatever the pixels are, with
\* no table allocated, no table cell written and no window evaluated.
C1_TooSmallReturnsOne ==
    (pc = "done" /\ ~Fits) =>
        /\ result = R(1)
        /\ writes = <<>>
        /\ satX = <<>> /\ satY = <<>> /\ satX2 = <<>> /\ satY2 = <<>> /\ satXY = <<>>
        /\ count = 0 /\ wins = <<>> /\ order = <<>>

\* C1 witness: a finished call on a 3 by 2 image, too low for a window of 3, with
\* two images that differ.
C1_Witness ==
    /\ pc = "done" /\ ~Fits
    /\ width = 3 /\ height = 2 /\ ws = 3
    /\ img1 # img2
    /\ result = R(1)

\* The corner of the window evaluated last, and what was computed for it.
LastCorner == order[Len(order)]

win == wins[Len(wins)]

C4_WindowSumsAreDirect ==
    (pc = "windows" /\ count > 0) =>
        LET cx == LastCorner[1]
            cy == LastCorner[2]
            dX == Direct("X", cx, cy, ws, ws)
            dY == Direct("Y", cx, cy, ws, ws)
            dX2 == Direct("X2", cx, cy, ws, ws)
            dY2 == Direct("Y2", cx, cy, ws, ws)
            dXY == Direct("XY", cx, cy, ws, ws)
            n == ws * ws
        IN  /\ 0 <= cx /\ cx < winW /\ 0 <= cy /\ cy < winH
            /\ win.sX = dX /\ win.sY = dY
            /\ win.sX2 = dX2 /\ win.sY2 = dY2 /\ win.sXY = dXY
            /\ win.varX = RSub(Norm(dX2, n), RMul(Norm(dX, n), Norm(dX, n)))
            /\ win.varY = RSub(Norm(dY2, n), RMul(Norm(dY, n), Norm(dY, n)))
            /\ win.covXY = RSub(Norm(dXY, n), RMul(Norm(dX, n), Norm(dY, n)))

\* C4 witness: a 2 by 2 window away from the left edge has been evaluated on two
\* images that differ inside it.
C4_Witness ==
    /\ pc = "windows" /\ count > 0
    /\ ws = 2 /\ LastCorner[1] = 1
    /\ win.sX # win.sY /\ win.sX > 0 /\ win.sXY > 0
    /\ win.sX = Direct("X", 1, LastCorner[2], 2, 2)

\* The coordinates of table cell i: row i \div sw, column i % sw.
CellRow(i) == i \div sw

CellCol(i) == i % sw

\* Cell i of the table of quantity q holds the sum of q over the pixels above and
\* to the left of it: its final value.
CellFinal(q, i) == TableOf(q)[i + 1] = Direct(q, 0, 0, CellCol(i), CellRow(i))

\* C7: when the build loop has finished, every cell (y, x) of each table holds the
\* sum of its quantity over the pixels with corners (0, 0) and (x - 1, y - 1), so the
\* top row and the left column are 0; and during the build the three cells the
\* recurrence reads next are in the table and already hold their final values.
C7_TablesArePrefixSums ==
    /\ (pc = "windows" /\ count = 0) =>
           /\ Len(satX) = (width + 1) * (height + 1)
           /\ \A q \in Quantities :
                  /\ Len(TableOf(q)) = (width + 1) * (height + 1)
                  /\ \A i \in 0 .. (width + 1) * (height + 1) - 1 :
                         /\ CellFinal(q, i)
                         /\ (CellRow(i) = 0 \/ CellCol(i) = 0) => TableOf(q)[i + 1] = 0
    /\ pc = "build" =>
           LET i == CellIndex(x, y, sw)
           IN  \A j \in {AboveOf(i, sw), LeftOf(i), AboveLeftOf(i, sw)} :
                   /\ InRange(j, satSize)
                   /\ \A q \in Quantities : CellFinal(q, j)

\* C7 witness: the build of a 3 by 2 table pair has finished with a last cell that
\* differs between the tables and is not 0.
C7_Witness ==
    /\ pc = "windows" /\ count = 0
    /\ width = 3 /\ height = 2
    /\ satX[satSize] = 4 /\ satY[satSize] = 2 /\ satXY[satSize] = 1

\* C3: symmetry.  The call on (img1, img2) returns what the call on (img2, img1)
\* with the same width, height and options returns, and each window's num and den are
\* those of the same window of the swapped call.
C3_Symmetry ==
    pc = "done" =>
        IF ~Fits
        THEN result = ssimGrey(img2, img1, width, height, ws, k1, k2, bitDepth)
        ELSE \A Z \in {Zeros(SatCells(SatStride(width), height))} :
             \A T \in {BuildLoop(Tables(Z, Z, Z, Z, Z), img2, img1, 0, 0,
                                 width, height, SatStride(width))} :
                 /\ result = WindowLoop(T, 0, 0, R(0), 0, WinExtent(width, ws),
                                        WinExtent(height, ws), ws, SatStride(width),
                                        ws * ws, c1, c2)
                 /\ \A k \in 1 .. Len(wins) :
                        \A S \in {EvalWindow(T, order[k][1], order[k][2], ws,
                                             SatStride(width), ws * ws, c1, c2)} :
                            S.num = wins[k].num /\ S.den = wins[k].den

\* C3 witness: a finished call over two windows on two images with different means,
\* whose result is a finite value other than 1.
C3_Witness ==
    /\ pc = "done" /\ count = 2 /\ ws = 2
    /\ win.sX # win.sY
    /\ IsFinite(result) /\ result # R(1)

RECURSIVE SumTo(_, _)
SumTo(v, k) == IF k = 0 THEN R(0) ELSE RAdd(SumTo(v, k - 1), v[k].val)

\* C9: the windows are visited in row-major order, each once; after the k-th fold
\* count = k and mssim * count is the sum of the first k per-window values; on
\* return count = winW * winH and the result is that mean.
C9_RowMajorRunningMean ==
    (pc \in {"windows", "done"} /\ Fits) =>
        /\ count = Len(wins) /\ count = Len(order)
        /\ \A k \in 1 .. Len(order) :
               order[k] = <<(k - 1) % winW, (k - 1) \div winW>>
        /\ RMul(mssim, R(count)) = SumTo(wins, count)
        /\ pc = "done" =>
               /\ count = (width - ws + 1) * (height - ws + 1)
               /\ result = mssim
               /\ RMul(result, R(count)) = SumTo(wins, count)

\* C9 witness: a finished call over two rows of two windows whose values are
\* not all the same.
C9_Witness ==
    /\ pc = "done"
    /\ winW = 2 /\ winH = 2 /\ count = 4
    /\ wins[1].val # wins[2].val /\ wins[3].val # wins[4].val
    /\ IsFinite(result)

\* C10: every index used so far was in range; no table cell has been written twice;
\* no cell of the top row or of the left column has been written.
C10_IndicesInRange ==
    /\ idxOk
    /\ \A i, j \in 1 .. Len(writes) : writes[i] = writes[j] => i = j
    /\ \A i \in 1 .. Len(writes) :
           /\ InRange(writes[i], (width + 1) * (height + 1))
           /\ writes[i] \div (width + 1) >= 1
           /\ writes[i] % (width + 1) >= 1
    /\ pc \in {"windows", "done"} /\ Fits => Len(writes) = width * height

\* C10 witness: a finished call that wrote every inner cell of a 3 by 2 image's
\* tables and read the corners of two windows.
C10_Witness ==
    /\ pc = "done"
    /\ width = 3 /\ height = 2 /\ ws = 2
    /\ Len(writes) = 6 /\ count = 2
    /\ idxOk

\* Whether n = 2 ^ b, decided by halving so that no power beyond n is computed.
RECURSIVE IsPowerOfTwo(_, _)
IsPowerOfTwo(n, b) ==
    IF b = 0 THEN n = 1 ELSE n > 0 /\ n % 2 = 0 /\ IsPowerOfTwo(n \div 2, b - 1)

\* C6: for every positive bitDepth the call uses L = 2 ^ bitDepth - 1,
\* c1 = (k1 * L) ^ 2 and c2 = (k2 * L) ^ 2.
C6_DynamicRange ==
    pc # "start" =>
        /\ IsPowerOfTwo(L + 1, bitDepth)
        /\ c1 = RMul(RMul(k1, R(L)), RMul(k1, R(L)))
        /\ c2 = RMul(RMul(k2, R(L)), RMul(k2, R(L)))

\* C5: with k1 > 0 and k2 > 0, the value returned lies in [-1, 1].
C5_ResultInRange ==
    (pc = "done" /\ RLt(R(0), k1) /\ RLt(R(0), k2)) =>
        RLeq(R(-1), result) /\ RLeq(result, R(1))

====
